---- MODULE Spec2Model ----
(***************************************************************************)
(* Model of the fixed-capacity slotted Inventory of rs_lib                 *)
(* (src/src/collections/inventory.rs), the Container trait it implements   *)
(* (src/src/collections/container.rs) and the Item value it stores         *)
(* (src/src/entity/item.rs).                                               *)
(*                                                                         *)
(* The Vec of slots is a TLA+ sequence: the slot the code calls `slot`     *)
(* (0-based) is items[slot + 1] here.                                      *)
(***************************************************************************)
EXTENDS Integers, Sequences, FiniteSets, TLC

\* ---------------------------------------------------------------- bounds
MaxCap == 2      \* largest capacity handed to with_capacity
MaxId  == 1      \* item identifiers are 0..MaxId
MaxQty == 1      \* item quantities are 0..MaxQty
MaxCalls == MaxCap + 1   \* container calls made after construction

Capacities == 0..MaxCap
SlotArgs   == 0..MaxCap          \* slot >= capacity is out of range
Identifiers == 0..MaxId
Quantities  == 0..MaxQty

\* ------------------------------------------------------------------ Item
\* Item::new
ItemNew(identifier, quantity) ==
    [identifier |-> identifier, quantity |-> quantity]

Items == {ItemNew(i, q) : i \in Identifiers, q \in Quantities}

\* ---------------------------------------------------------- InventorySlot
Empty == [tag |-> "Empty"]
SlotItem(item) == [tag |-> "Item", item |-> item]
IsItem(slot) == slot.tag = "Item"

\* Vec::resize(n, value) on an empty Vec
RECURSIVE Resize(_, _)
Resize(n, value) == IF n = 0 THEN << >> ELSE Append(Resize(n - 1, value), value)

\* -------------------------------------------------------- ContainerError
Full == "Full"
NotFound == "NotFound"
IndexOutOfBounds == "IndexOutOfBounds"
QuantityInsufficient == "QuantityInsufficient"
Ok == "Ok"
NoValue == [tag |-> "None"]
NoItem == [tag |-> "NoItem"]
NoSlot == 0 - 1

\* A call's outcome: the inventory afterwards, the Result's variant, the
\* value carried by Ok (NoValue for Ok(())), and whether the call panicked
\* on an arithmetic underflow of item_count.
Outcome(inv, result, value, panic) ==
    [inv |-> inv, result |-> result, value |-> value, panic |-> panic]

\* ------------------------------------------------------------- Inventory
\* with_capacity that reserves room (Vec::with_capacity) but never resizes
with_capacity_unsized(c) ==
    [capacity |-> c, item_count |-> 0, items |-> << >>]

\* with_capacity that starts the count at the capacity
with_capacity_counted(c) ==
    [capacity |-> c, item_count |-> c, items |-> Resize(c, Empty)]

\* Inventory::with_capacity
with_capacity(c) ==
    [capacity |-> c, item_count |-> 0, items |-> Resize(c, Empty)]

\* Inventory::capacity
capacity(inv) == inv.capacity

\* Inventory::count
count(inv) == inv.item_count

\* contains that compares identifiers only
contains_identifier(inv, item) ==
    \E k \in 1..Len(inv.items) :
        IsItem(inv.items[k]) /\ inv.items[k].item.identifier = item.identifier

\* Inventory::contains: Vec::contains on the slot InventorySlot::Item(item),
\* structural equality of identifier and quantity
contains(inv, item) ==
    \E k \in 1..Len(inv.items) : inv.items[k] = SlotItem(item)

\* a scan that takes the last Empty slot instead of the first
RECURSIVE AddScanLast(_, _)
AddScanLast(items, k) ==
    IF k > Len(items) THEN 0
    ELSE LET later == AddScanLast(items, k + 1) IN
         IF later # 0 THEN later
         ELSE IF items[k] = Empty THEN k ELSE 0

\* The iter_mut() scan of add: index of the first Empty slot at or after k,
\* 0 when the scan runs off the end.
RECURSIVE AddScan(_, _)
AddScan(items, k) ==
    IF k > Len(items) THEN 0
    ELSE IF items[k] = Empty THEN k
    ELSE AddScan(items, k + 1)

\* add without `self.item_count += 1`
add_uncounted(inv, item) ==
    LET k == AddScan(inv.items, 1) IN
    IF k = 0 THEN Outcome(inv, Full, NoValue, FALSE)
    ELSE Outcome([inv EXCEPT !.items[k] = SlotItem(item)], Ok, NoValue, FALSE)

\* Inventory::add
add(inv, item) ==
    LET k == AddScan(inv.items, 1) IN
    IF k = 0 THEN Outcome(inv, Full, NoValue, FALSE)
    ELSE Outcome([inv EXCEPT !.items[k] = SlotItem(item),
                             !.item_count = @ + 1], Ok, NoValue, FALSE)

\* add_at that leaves an occupied slot's item in place
add_at_keep(inv, item, slot) ==
    IF slot >= inv.capacity THEN Outcome(inv, IndexOutOfBounds, NoValue, FALSE)
    ELSE IF IsItem(inv.items[slot + 1])
    THEN Outcome([inv EXCEPT !.item_count = @ + 1], Ok, NoValue, FALSE)
    ELSE Outcome([inv EXCEPT !.items[slot + 1] = SlotItem(item),
                             !.item_count = @ + 1], Ok, NoValue, FALSE)

\* add_at that counts the item only when the slot was empty
add_at_count_new(inv, item, slot) ==
    IF slot >= inv.capacity THEN Outcome(inv, IndexOutOfBounds, NoValue, FALSE)
    ELSE IF IsItem(inv.items[slot + 1])
    THEN Outcome([inv EXCEPT !.items[slot + 1] = SlotItem(item)], Ok, NoValue, FALSE)
    ELSE Outcome([inv EXCEPT !.items[slot + 1] = SlotItem(item),
                             !.item_count = @ + 1], Ok, NoValue, FALSE)

\* Inventory::add_at
add_at(inv, item, slot) ==
    IF slot >= inv.capacity THEN Outcome(inv, IndexOutOfBounds, NoValue, FALSE)
    ELSE Outcome([inv EXCEPT !.items[slot + 1] = SlotItem(item),
                             !.item_count = @ + 1], Ok, NoValue, FALSE)

\* a scan that stops at the first occupied slot, whatever its identifier
RECURSIVE RemoveScanAnyItem(_, _, _)
RemoveScanAnyItem(items, identifier, k) ==
    IF k > Len(items) THEN 0
    ELSE IF IsItem(items[k]) THEN k
    ELSE RemoveScanAnyItem(items, identifier, k + 1)

\* The iter_mut() scan of remove: index of the first slot at or after k that
\* holds an item with the given identifier, 0 when there is none.
RECURSIVE RemoveScan(_, _, _)
RemoveScan(items, identifier, k) ==
    IF k > Len(items) THEN 0
    ELSE IF IsItem(items[k]) /\ items[k].item.identifier = identifier THEN k
    ELSE RemoveScan(items, identifier, k + 1)

\* `self.item_count -= 1` after the slot has been written: an underflow
\* panics (overflow checks on) and leaves the count as it was.
Decrement(inv) ==
    IF inv.item_count >= 1
    THEN Outcome([inv EXCEPT !.item_count = @ - 1], Ok, NoValue, FALSE)
    ELSE Outcome(inv, Ok, NoValue, TRUE)

\* remove that empties the slot whatever the remainder
remove_all(inv, item) ==
    LET k == RemoveScan(inv.items, item.identifier, 1) IN
    IF k = 0 THEN Outcome(inv, NotFound, NoValue, FALSE)
    ELSE LET i == inv.items[k].item IN
         IF i.quantity > item.quantity
         THEN Outcome(inv, QuantityInsufficient, NoValue, FALSE)
         ELSE Decrement([inv EXCEPT !.items[k] = Empty])

\* remove that goes on to a later slot of the identifier when the first one
\* holds more than requested
RECURSIVE RemoveScanFitting(_, _, _)
RemoveScanFitting(items, item, k) ==
    IF k > Len(items) THEN 0
    ELSE IF /\ IsItem(items[k])
            /\ items[k].item.identifier = item.identifier
            /\ items[k].item.quantity <= item.quantity THEN k
    ELSE RemoveScanFitting(items, item, k + 1)

remove_next_slot(inv, item) ==
    LET first == RemoveScan(inv.items, item.identifier, 1)
        k == RemoveScanFitting(inv.items, item, 1) IN
    IF first = 0 THEN Outcome(inv, NotFound, NoValue, FALSE)
    ELSE IF k = 0 THEN Outcome(inv, QuantityInsufficient, NoValue, FALSE)
    ELSE LET i == inv.items[k].item
             difference == item.quantity - i.quantity IN
         IF difference = 0
         THEN Decrement([inv EXCEPT !.items[k] = Empty])
         ELSE Outcome([inv EXCEPT !.items[k] =
                          SlotItem(ItemNew(i.identifier, difference))],
                      Ok, NoValue, FALSE)

\* remove that lowers the count on a partial removal too
remove_count_partial(inv, item) ==
    LET k == RemoveScan(inv.items, item.identifier, 1) IN
    IF k = 0 THEN Outcome(inv, NotFound, NoValue, FALSE)
    ELSE LET i == inv.items[k].item IN
         IF i.quantity > item.quantity
         THEN Outcome(inv, QuantityInsufficient, NoValue, FALSE)
         ELSE LET difference == item.quantity - i.quantity IN
              IF difference = 0
              THEN Decrement([inv EXCEPT !.items[k] = Empty])
              ELSE Decrement([inv EXCEPT !.items[k] =
                                 SlotItem(ItemNew(i.identifier, difference))])

\* remove that empties the slot before it compares the quantities
remove_clear_first(inv, item) ==
    LET k == RemoveScan(inv.items, item.identifier, 1) IN
    IF k = 0 THEN Outcome(inv, NotFound, NoValue, FALSE)
    ELSE LET i == inv.items[k].item IN
         IF i.quantity > item.quantity
         THEN Outcome([inv EXCEPT !.items[k] = Empty],
                      QuantityInsufficient, NoValue, FALSE)
         ELSE LET difference == item.quantity - i.quantity IN
              IF difference = 0
              THEN Decrement([inv EXCEPT !.items[k] = Empty])
              ELSE Outcome([inv EXCEPT !.items[k] =
                               SlotItem(ItemNew(i.identifier, difference))],
                           Ok, NoValue, FALSE)

\* Inventory::remove
remove(inv, item) ==
    LET k == RemoveScan(inv.items, item.identifier, 1) IN
    IF k = 0 THEN Outcome(inv, NotFound, NoValue, FALSE)
    ELSE LET i == inv.items[k].item IN
         IF i.quantity > item.quantity
         THEN Outcome(inv, QuantityInsufficient, NoValue, FALSE)
         ELSE LET difference == item.quantity - i.quantity IN
              IF difference = 0
              THEN Decrement([inv EXCEPT !.items[k] = Empty])
              ELSE Outcome([inv EXCEPT !.items[k] =
                               SlotItem(ItemNew(i.identifier, difference))],
                           Ok, NoValue, FALSE)

\* remove_at that lowers the count but leaves the item in the slot
remove_at_uncleared(inv, slot) ==
    IF slot >= inv.capacity THEN Outcome(inv, IndexOutOfBounds, NoValue, FALSE)
    ELSE IF IsItem(inv.items[slot + 1])
    THEN Decrement(inv)
    ELSE Outcome(inv, NotFound, NoValue, FALSE)

\* remove_at that lowers the count on an empty slot too
remove_at_unchecked(inv, slot) ==
    IF slot >= inv.capacity THEN Outcome(inv, IndexOutOfBounds, NoValue, FALSE)
    ELSE Decrement([inv EXCEPT !.items[slot + 1] = Empty])

\* remove_at without `self.item_count -= 1`
remove_at_uncounted(inv, slot) ==
    IF slot >= inv.capacity THEN Outcome(inv, IndexOutOfBounds, NoValue, FALSE)
    ELSE IF IsItem(inv.items[slot + 1])
    THEN Outcome([inv EXCEPT !.items[slot + 1] = Empty], Ok, NoValue, FALSE)
    ELSE Outcome(inv, NotFound, NoValue, FALSE)

\* Inventory::remove_at
remove_at(inv, slot) ==
    IF slot >= inv.capacity THEN Outcome(inv, IndexOutOfBounds, NoValue, FALSE)
    ELSE IF IsItem(inv.items[slot + 1])
    THEN Decrement([inv EXCEPT !.items[slot + 1] = Empty])
    ELSE Outcome(inv, NotFound, NoValue, FALSE)

\* get_at that moves the item out of the slot instead of cloning it
get_at_take(inv, slot) ==
    IF slot >= inv.capacity THEN Outcome(inv, IndexOutOfBounds, NoValue, FALSE)
    ELSE IF IsItem(inv.items[slot + 1])
    THEN Outcome([inv EXCEPT !.items[slot + 1] = Empty],
                 Ok, inv.items[slot + 1].item, FALSE)
    ELSE Outcome(inv, NotFound, NoValue, FALSE)

\* Inventory::get_at
get_at(inv, slot) ==
    IF slot >= inv.capacity THEN Outcome(inv, IndexOutOfBounds, NoValue, FALSE)
    ELSE IF IsItem(inv.items[slot + 1])
    THEN Outcome(inv, Ok, inv.items[slot + 1].item, FALSE)
    ELSE Outcome(inv, NotFound, NoValue, FALSE)

\* swap that rejects only when both indices are out of range; Vec::swap then
\* panics on the one that is
swap_both(inv, slot_a, slot_b) ==
    IF slot_a >= inv.capacity /\ slot_b >= inv.capacity
    THEN Outcome(inv, IndexOutOfBounds, NoValue, FALSE)
    ELSE IF slot_a >= inv.capacity \/ slot_b >= inv.capacity
    THEN Outcome(inv, "Panic", NoValue, TRUE)
    ELSE Outcome([inv EXCEPT !.items[slot_a + 1] = inv.items[slot_b + 1],
                             !.items[slot_b + 1] = inv.items[slot_a + 1]],
                 Ok, NoValue, FALSE)

\* swap that copies slot_b into slot_a and forgets the way back
swap_one_way(inv, slot_a, slot_b) ==
    IF slot_a >= inv.capacity \/ slot_b >= inv.capacity
    THEN Outcome(inv, IndexOutOfBounds, NoValue, FALSE)
    ELSE Outcome([inv EXCEPT !.items[slot_a + 1] = inv.items[slot_b + 1]],
                 Ok, NoValue, FALSE)

\* swap that refuses to move an empty slot
swap_occupied_only(inv, slot_a, slot_b) ==
    IF slot_a >= inv.capacity \/ slot_b >= inv.capacity
    THEN Outcome(inv, IndexOutOfBounds, NoValue, FALSE)
    ELSE IF inv.items[slot_a + 1] = Empty \/ inv.items[slot_b + 1] = Empty
    THEN Outcome(inv, NotFound, NoValue, FALSE)
    ELSE Outcome([inv EXCEPT !.items[slot_a + 1] = inv.items[slot_b + 1],
                             !.items[slot_b + 1] = inv.items[slot_a + 1]],
                 Ok, NoValue, FALSE)

\* Inventory::swap (Vec::swap of the two slots)
swap(inv, slot_a, slot_b) ==
    IF slot_a >= inv.capacity \/ slot_b >= inv.capacity
    THEN Outcome(inv, IndexOutOfBounds, NoValue, FALSE)
    ELSE Outcome([inv EXCEPT !.items[slot_a + 1] = inv.items[slot_b + 1],
                             !.items[slot_b + 1] = inv.items[slot_a + 1]],
                 Ok, NoValue, FALSE)

\* ----------------------------------------------------------------- state
VARIABLES
    inv,        \* the Inventory: capacity, item_count, items
    prev,       \* the Inventory as it was before the last call
    op,         \* the last call made
    arg_item,   \* its item argument (NoItem when it takes none)
    arg_slot,   \* its slot / slot_a argument (NoSlot when it takes none)
    arg_slot_b, \* its slot_b argument (NoSlot when it takes none)
    result,     \* the variant it returned
    value,      \* the value it returned
    after,      \* the call made just before the last one, when it returned
                \* Ok on the same item or slot: the two calls share an
                \* argument and agree on every argument both take
    calls,      \* number of calls made since construction
    panicked    \* a call panicked; the program has stopped

vars == <<inv, prev, op, arg_item, arg_slot, arg_slot_b, result, value,
          after, calls, panicked>>

\* The state right after with_capacity(c).
Fresh(c) ==
    /\ inv = with_capacity(c)
    /\ prev = inv
    /\ op = "with_capacity"
    /\ arg_item = NoItem
    /\ arg_slot = NoSlot
    /\ arg_slot_b = NoSlot
    /\ result = Ok
    /\ value = NoValue
    /\ after = "none"
    /\ calls = 0
    /\ panicked = FALSE

Init == \E c \in Capacities : Fresh(c)

\* Two calls agree on an argument when one of them does not take it or both
\* were handed the same one.
SameArg(a, b, none) == a = none \/ b = none \/ a = b

\* Both calls take the argument.
BothTake(a, b, none) == a # none /\ b # none

\* One call: name, arguments and outcome recorded next to the new inventory.
Step(name, item, slot, slot_b, out) ==
    /\ ~panicked
    /\ inv' = out.inv
    /\ prev' = inv
    /\ op' = name
    /\ arg_item' = item
    /\ arg_slot' = slot
    /\ arg_slot_b' = slot_b
    /\ result' = out.result
    /\ value' = out.value
    /\ after' = IF /\ calls > 0
                   /\ result = Ok
                   /\ SameArg(arg_item, item, NoItem)
                   /\ SameArg(arg_slot, slot, NoSlot)
                   /\ SameArg(arg_slot_b, slot_b, NoSlot)
                   /\ \/ BothTake(arg_item, item, NoItem)
                      \/ BothTake(arg_slot, slot, NoSlot)
                THEN op ELSE "none"
    /\ calls' = calls + 1
    /\ panicked' = out.panic

\* One of the at most MaxCalls calls an owner makes in any order.
Call(name, item, slot, slot_b, out) ==
    /\ calls < MaxCalls
    /\ Step(name, item, slot, slot_b, out)

Capacity ==
    Call("capacity", NoItem, NoSlot, NoSlot, Outcome(inv, Ok, capacity(inv), FALSE))

Count ==
    Call("count", NoItem, NoSlot, NoSlot, Outcome(inv, Ok, count(inv), FALSE))

Contains ==
    \E item \in Items :
        Call("contains", item, NoSlot, NoSlot,
             Outcome(inv, Ok, contains(inv, item), FALSE))

Add ==
    \E item \in Items : Call("add", item, NoSlot, NoSlot, add(inv, item))

AddAt ==
    \E item \in Items, slot \in SlotArgs :
        Call("add_at", item, slot, NoSlot, add_at(inv, item, slot))

Remove ==
    \E item \in Items : Call("remove", item, NoSlot, NoSlot, remove(inv, item))

RemoveAt ==
    \E slot \in SlotArgs : Call("remove_at", NoItem, slot, NoSlot, remove_at(inv, slot))

GetAt ==
    \E slot \in SlotArgs : Call("get_at", NoItem, slot, NoSlot, get_at(inv, slot))

Swap ==
    \E slot_a \in SlotArgs, slot_b \in SlotArgs :
        Call("swap", NoItem, slot_a, slot_b, swap(inv, slot_a, slot_b))

Next ==
    \/ Capacity
    \/ Count
    \/ Contains
    \/ Add
    \/ AddAt
    \/ Remove
    \/ RemoveAt
    \/ GetAt
    \/ Swap

Spec == Init /\ [][Next]_vars

\* Only add is ever called on the fresh inventory.
NextAdd == Add

SpecAdd == Init /\ [][NextAdd]_vars

\* An owner that hands add_at only slots that are empty at the time of the
\* call (or out of range), as main and the tests of the repository do.
AddAtEmpty ==
    \E item \in Items, slot \in SlotArgs :
        /\ slot < inv.capacity => inv.items[slot + 1] = Empty
        /\ Call("add_at", item, slot, NoSlot, add_at(inv, item, slot))

NextEmpty ==
    \/ Capacity
    \/ Count
    \/ Contains
    \/ Add
    \/ AddAtEmpty
    \/ Remove
    \/ RemoveAt
    \/ GetAt
    \/ Swap

SpecEmpty == Init /\ [][NextEmpty]_vars

\* The run of inv_add_remove_at on a fresh inventory of capacity N: add_at
\* into slots 0..N-1 in turn, remove_at on slots N-1 down to 0, then one more
\* remove_at on a slot in range. The number of calls made tells the phase.
FillCapacities == 0..(MaxCap + 1)

InitFill == \E c \in FillCapacities : Fresh(c)

FillSlot ==
    /\ calls < inv.capacity
    /\ \E item \in Items :
          Step("add_at", item, calls, NoSlot, add_at(inv, item, calls))

DrainSlot ==
    /\ inv.capacity <= calls
    /\ calls < 2 * inv.capacity
    /\ LET slot == 2 * inv.capacity - 1 - calls IN
       Step("remove_at", NoItem, slot, NoSlot, remove_at(inv, slot))

ProbeSlot ==
    /\ calls = 2 * inv.capacity
    /\ \E slot \in 0..(inv.capacity - 1) :
          Step("remove_at", NoItem, slot, NoSlot, remove_at(inv, slot))

NextFill ==
    \/ FillSlot
    \/ DrainSlot
    \/ ProbeSlot

SpecFill == InitFill /\ [][NextFill]_vars

\* ------------------------------------------------------------- vocabulary
\* Number of slots of the sequence that hold an item.
RECURSIVE Occupied(_)
Occupied(items) ==
    IF items = << >> THEN 0
    ELSE (IF IsItem(Head(items)) THEN 1 ELSE 0) + Occupied(Tail(items))

\* Shape of the state under Spec.
TypeOK ==
    /\ inv.capacity \in Capacities
    /\ inv.item_count \in 0..MaxCalls
    /\ calls \in 0..MaxCalls
    /\ panicked \in BOOLEAN
    /\ \A k \in 1..Len(inv.items) :
          inv.items[k] = Empty \/ (IsItem(inv.items[k]) /\ inv.items[k].item \in Items)

\* Indices (1-based) of the empty slots of a slot sequence.
EmptySlots(items) == {k \in 1..Len(items) : items[k] = Empty}

\* Indices (1-based) of the slots holding an item with the given identifier.
Holding(items, identifier) ==
    {k \in 1..Len(items) : IsItem(items[k]) /\ items[k].item.identifier = identifier}

\* Least element of a non-empty set of indices.
Lowest(S) == CHOOSE k \in S : \A j \in S : k <= j

\* Every slot but slot k is as it was before the last call.
OthersUnchanged(k) ==
    /\ Len(inv.items) = Len(prev.items)
    /\ \A j \in 1..Len(prev.items) : j # k => inv.items[j] = prev.items[j]

\* ------------------------------------------------------------------ C1
\* C1: in every reachable state count() equals the number of slots that
\* currently hold an item.
C1_CountIsOccupied == count(inv) = Occupied(inv.items)

\* ------------------------------------------------------------------ C2
\* C2: in every reachable state the slot sequence is exactly as long as the
\* capacity given at construction, capacity() returns that value, and no
\* call changes the capacity or the length.
C2_CapacityFixed ==
    /\ Len(inv.items) = inv.capacity
    /\ capacity(inv) = Len(inv.items)
    /\ inv.capacity = prev.capacity
    /\ Len(inv.items) = Len(prev.items)
    /\ op = "capacity" => value = prev.capacity

C2_Witness ==
    /\ op = "capacity"
    /\ value = MaxCap
    /\ prev.item_count > 0
    /\ Len(inv.items) = MaxCap

\* ------------------------------------------------------------------ C3
\* C3: add(item) succeeds iff some slot is empty; on success the item is in
\* the lowest-index empty slot, count() is one more and every other slot is
\* as before (no merging, no reordering); otherwise it returns Full.
C3_AddFirstFit ==
    op = "add" =>
        /\ result = Ok <=> EmptySlots(prev.items) # {}
        /\ result # Ok => result = Full
        /\ result = Ok =>
              LET k == Lowest(EmptySlots(prev.items)) IN
              /\ inv.items[k] = SlotItem(arg_item)
              /\ OthersUnchanged(k)
              /\ count(inv) = count(prev) + 1

\* add succeeded past an occupied slot holding the same identifier while a
\* later slot was empty too.
C3_Witness ==
    /\ op = "add"
    /\ result = Ok
    /\ Holding(prev.items, arg_item.identifier) # {}
    /\ Lowest(EmptySlots(prev.items)) > 1

C3_WitnessFull ==
    /\ op = "add"
    /\ result = Full
    /\ prev.capacity = MaxCap

\* ------------------------------------------------------------------ C4
\* C4 (under SpecAdd, only add is called on the fresh inventory): each of
\* the first capacity calls returns Ok and raises count() by exactly 1, so
\* count() is the number of calls made; call number capacity + 1 returns Full.
C4_AddUntilFull ==
    /\ calls <= inv.capacity =>
          /\ count(inv) = calls
          /\ calls >= 1 => (result = Ok /\ count(inv) = count(prev) + 1)
    /\ calls = inv.capacity + 1 => (result = Full /\ count(inv) = inv.capacity)

C4_Witness ==
    /\ inv.capacity = MaxCap
    /\ calls = MaxCap + 1
    /\ op = "add"
    /\ result = Full

\* ------------------------------------------------------------------ C5
\* C5 as stated: a remove(&x) made right after a successful add(x) returns
\* Ok(()).
C5_RemoveAfterAddIsOk ==
    (op = "remove" /\ after = "add") => result = Ok

\* C5, amended: a remove(&x) made right after a successful add(x) returns
\* Ok(()) unless the lowest-index slot holding x's identifier holds a
\* greater quantity than x's; then it returns QuantityInsufficient.
C5_RemoveAfterAdd ==
    (op = "remove" /\ after = "add") =>
        /\ Holding(prev.items, arg_item.identifier) # {}
        /\ LET k == Lowest(Holding(prev.items, arg_item.identifier)) IN
           result = IF prev.items[k].item.quantity > arg_item.quantity
                    THEN QuantityInsufficient ELSE Ok

C5_Witness ==
    /\ op = "remove"
    /\ after = "add"
    /\ result = Ok
    /\ Cardinality(Holding(prev.items, arg_item.identifier)) > 1

C5_WitnessInsufficient ==
    /\ op = "remove"
    /\ after = "add"
    /\ result = QuantityInsufficient

\* ------------------------------------------------------------------ C6
\* C6: remove(item) acts on the lowest-index slot holding item's identifier.
\* With held that slot's quantity and requested item's (held <= requested):
\* when requested - held is 0 the slot becomes empty and count() is one
\* less, otherwise the slot holds the same identifier with quantity
\* requested - held and count() is unchanged; no other slot changes. When
\* no slot holds the identifier the result is NotFound.
C6_RemoveReduces ==
    op = "remove" =>
        LET S == Holding(prev.items, arg_item.identifier) IN
        /\ S = {} => result = NotFound
        /\ S # {} =>
              LET k == Lowest(S)
                  held == prev.items[k].item.quantity
                  requested == arg_item.quantity
              IN  held <= requested =>
                      /\ result = Ok
                      /\ OthersUnchanged(k)
                      /\ requested - held = 0 =>
                            /\ inv.items[k] = Empty
                            /\ count(inv) = count(prev) - 1
                      /\ requested - held # 0 =>
                            /\ inv.items[k] =
                                  SlotItem(ItemNew(arg_item.identifier, requested - held))
                            /\ count(inv) = count(prev)

\* a partial removal: the slot keeps the identifier with the remainder
C6_Witness ==
    /\ op = "remove"
    /\ result = Ok
    /\ Holding(prev.items, arg_item.identifier) # {}
    /\ LET k == Lowest(Holding(prev.items, arg_item.identifier)) IN
       /\ prev.items[k].item.quantity < arg_item.quantity
       /\ IsItem(inv.items[k])
       /\ count(inv) = count(prev)

C6_WitnessCleared ==
    /\ op = "remove"
    /\ result = Ok
    /\ count(inv) = count(prev) - 1
    /\ Cardinality(Holding(prev.items, arg_item.identifier)) > 1

C6_WitnessNotFound ==
    /\ op = "remove"
    /\ result = NotFound
    /\ Occupied(prev.items) > 0

\* ------------------------------------------------------------------ C7
\* C7: remove(item) returns QuantityInsufficient exactly when the
\* lowest-index slot holding item's identifier holds a quantity strictly
\* greater than item's; then no later slot of that identifier is tried and
\* slots and count are unchanged.
C7_QuantityInsufficient ==
    op = "remove" =>
        LET S == Holding(prev.items, arg_item.identifier) IN
        /\ result = QuantityInsufficient <=>
              (S # {} /\ prev.items[Lowest(S)].item.quantity > arg_item.quantity)
        /\ result = QuantityInsufficient => inv = prev

\* a later slot of the same identifier could have served the request
C7_Witness ==
    /\ op = "remove"
    /\ result = QuantityInsufficient
    /\ \E k \in Holding(prev.items, arg_item.identifier) :
          prev.items[k].item.quantity <= arg_item.quantity

\* ------------------------------------------------------------------ C8
\* C8: remove_at(slot) with slot < capacity empties an occupied slot, lowers
\* count() by exactly 1 and changes no other slot; on an empty slot it
\* returns NotFound; so a second remove_at on the slot just emptied returns
\* NotFound.
C8_RemoveAt ==
    (op = "remove_at" /\ arg_slot < prev.capacity) =>
        /\ IsItem(prev.items[arg_slot + 1]) =>
              /\ result = Ok
              /\ inv.items[arg_slot + 1] = Empty
              /\ OthersUnchanged(arg_slot + 1)
              /\ count(inv) = count(prev) - 1
        /\ prev.items[arg_slot + 1] = Empty => result = NotFound
        /\ after = "remove_at" => result = NotFound

C8_Witness ==
    /\ op = "remove_at"
    /\ after = "remove_at"
    /\ arg_slot < prev.capacity
    /\ result = NotFound

C8_WitnessCleared ==
    /\ op = "remove_at"
    /\ result = Ok
    /\ Occupied(inv.items) > 0

\* ------------------------------------------------------------------ C9
\* C9: add_at, remove_at and get_at with slot >= capacity, and swap with
\* either index >= capacity, return IndexOutOfBounds and leave slots and
\* count unchanged, in every reachable state (capacity 0 included).
C9_OutOfBounds ==
    /\ (op \in {"add_at", "remove_at", "get_at"} /\ arg_slot >= prev.capacity) =>
          (result = IndexOutOfBounds /\ inv = prev)
    /\ (op = "swap" /\ (arg_slot >= prev.capacity \/ arg_slot_b >= prev.capacity)) =>
          (result = IndexOutOfBounds /\ inv = prev)

\* swap with one valid and one invalid index on a non-empty inventory
C9_Witness ==
    /\ op = "swap"
    /\ arg_slot < prev.capacity
    /\ IsItem(prev.items[arg_slot + 1])
    /\ arg_slot_b >= prev.capacity
    /\ result = IndexOutOfBounds

C9_WitnessZero ==
    /\ prev.capacity = 0
    /\ op \in {"add_at", "remove_at", "get_at"}
    /\ result = IndexOutOfBounds

\* ----------------------------------------------------------------- C10
\* C10: for slot < capacity, add_at(item, slot) returns Ok and a get_at(slot)
\* made right after it returns an item with the identifier and quantity of
\* the one inserted, whether or not the slot was occupied before.
C10_GetAfterAddAt ==
    [][ /\ (op' = "add_at" /\ arg_slot' < inv.capacity) => result' = Ok
        /\ ( /\ op = "add_at"
             /\ arg_slot < inv.capacity
             /\ op' = "get_at"
             /\ arg_slot' = arg_slot ) =>
                 /\ result' = Ok
                 /\ value'.identifier = arg_item.identifier
                 /\ value'.quantity = arg_item.quantity ]_vars

\* the slot read back had been overwritten at least once before
C10_Witness ==
    /\ op = "get_at"
    /\ after = "add_at"
    /\ result = Ok
    /\ value \in Items
    /\ count(prev) > Occupied(prev.items)

C11_WitnessTwice ==
    /\ op = "add_at"
    /\ after = "add_at"
    /\ calls = 2
    /\ count(inv) = 2
    /\ Occupied(inv.items) = 1

\* ----------------------------------------------------------------- C12
\* C12: for all a, b < capacity (a = b included) swap(a, b) returns Ok; then
\* slot a holds what slot b held and slot b what slot a held, empty or
\* occupied alike, every other slot is unchanged and so is count().
C12_SwapExchanges ==
    (op = "swap" /\ arg_slot < prev.capacity /\ arg_slot_b < prev.capacity) =>
        /\ result = Ok
        /\ Len(inv.items) = Len(prev.items)
        /\ inv.items[arg_slot + 1] = prev.items[arg_slot_b + 1]
        /\ inv.items[arg_slot_b + 1] = prev.items[arg_slot + 1]
        /\ \A k \in 1..Len(prev.items) :
              (k # arg_slot + 1 /\ k # arg_slot_b + 1) => inv.items[k] = prev.items[k]
        /\ count(inv) = count(prev)

\* an occupied slot changed places with an empty one
C12_Witness ==
    /\ op = "swap"
    /\ result = Ok
    /\ arg_slot # arg_slot_b
    /\ IsItem(prev.items[arg_slot + 1])
    /\ prev.items[arg_slot_b + 1] = Empty
    /\ inv.items[arg_slot + 1] = Empty

C12_WitnessSame ==
    /\ op = "swap"
    /\ result = Ok
    /\ arg_slot = arg_slot_b
    /\ IsItem(prev.items[arg_slot + 1])

\* ----------------------------------------------------------------- C13
\* C13: for all a, b < capacity, swap(a, b) followed by swap(a, b) restores
\* the slot contents and the count() that held before the first swap.
C13_SwapTwice ==
    [][ ( /\ op = "swap"
          /\ arg_slot < inv.capacity
          /\ arg_slot_b < inv.capacity
          /\ op' = "swap"
          /\ arg_slot' = arg_slot
          /\ arg_slot_b' = arg_slot_b ) =>
              (result' = Ok /\ inv' = prev) ]_vars

\* the second swap moved two different slot contents back
C13_Witness ==
    /\ op = "swap"
    /\ after = "swap"
    /\ result = Ok
    /\ arg_slot # arg_slot_b
    /\ inv.items[arg_slot + 1] # inv.items[arg_slot_b + 1]

\* ----------------------------------------------------------------- C14
\* C14 (under SpecFill, fresh inventory of capacity N): add_at into each of
\* the slots 0..N-1 returns Ok and raises count() by 1 up to N; remove_at
\* on slots N-1 down to 0 then returns Ok and lowers count() by 1 down to
\* 0; after that remove_at on any slot in range returns NotFound.
C14_FillThenDrain ==
    LET N == inv.capacity IN
    /\ (1 <= calls /\ calls <= N) =>
          /\ op = "add_at"
          /\ arg_slot = calls - 1
          /\ result = Ok
          /\ count(inv) = count(prev) + 1
          /\ count(inv) = calls
    /\ (N < calls /\ calls <= 2 * N) =>
          /\ op = "remove_at"
          /\ arg_slot = 2 * N - calls
          /\ result = Ok
          /\ count(inv) = count(prev) - 1
          /\ count(inv) = 2 * N - calls
    /\ (calls > 2 * N) =>
          /\ op = "remove_at"
          /\ arg_slot < N
          /\ result = NotFound
          /\ count(inv) = 0

C14_Witness ==
    /\ inv.capacity = MaxCap + 1
    /\ calls = 2 * inv.capacity + 1
    /\ op = "remove_at"
    /\ result = NotFound

C14_WitnessDrained ==
    /\ inv.capacity = MaxCap + 1
    /\ calls = 2 * inv.capacity
    /\ count(inv) = 0
    /\ count(prev) = 1

\* ----------------------------------------------------------------- C15
\* C15: for every capacity c (0 included) with_capacity(c) yields an
\* inventory with capacity() = c, count() = 0 and exactly c slots, all
\* empty: get_at(i) on it returns NotFound for every i < c.
C15_FreshInventory ==
    /\ \A c \in Capacities :
          LET fresh == with_capacity(c) IN
          /\ capacity(fresh) = c
          /\ count(fresh) = 0
          /\ Len(fresh.items) = c
          /\ \A k \in 1..c : fresh.items[k] = Empty
    /\ calls = 0 =>
          /\ inv \in {with_capacity(c) : c \in Capacities}
          /\ count(inv) = 0
          /\ Len(inv.items) = capacity(inv)
          /\ EmptySlots(inv.items) = 1..capacity(inv)
    /\ (calls = 1 /\ op = "get_at" /\ arg_slot < capacity(prev)) =>
          result = NotFound

\* get_at on the last slot of the largest fresh inventory
C15_Witness ==
    /\ calls = 1
    /\ op = "get_at"
    /\ capacity(prev) = MaxCap
    /\ arg_slot = MaxCap - 1
    /\ result = NotFound

C15_WitnessZero ==
    /\ calls = 0
    /\ capacity(inv) = 0
    /\ inv.items = << >>

\* ----------------------------------------------------------------- C16
\* C16: contains(item) is true iff some slot holds an item whose identifier
\* and quantity both equal item's; the same identifier with another
\* quantity does not count.
C16_ContainsExact ==
    op = "contains" =>
        (value = TRUE <=>
            \E k \in 1..Len(prev.items) :
                /\ IsItem(prev.items[k])
                /\ prev.items[k].item.identifier = arg_item.identifier
                /\ prev.items[k].item.quantity = arg_item.quantity)

\* the identifier is held, with another quantity only
C16_Witness ==
    /\ op = "contains"
    /\ value = FALSE
    /\ Holding(prev.items, arg_item.identifier) # {}

C16_WitnessTrue ==
    /\ op = "contains"
    /\ value = TRUE
    /\ Cardinality(Holding(prev.items, arg_item.identifier)) > 1

\* ----------------------------------------------------------------- C17
\* C17: no unsigned subtraction underflows: count() is at least the number
\* of occupied slots in every reachable state, so remove and remove_at
\* lower the count only from a count() >= 1, and remove computes
\* requested - held only when requested >= held.
C17_NoUnderflow ==
    /\ ~panicked
    /\ count(inv) >= Occupied(inv.items)
    /\ (op \in {"remove", "remove_at"} /\ Occupied(inv.items) < Occupied(prev.items)) =>
          (count(prev) >= 1 /\ count(inv) = count(prev) - 1)
    /\ (op = "remove" /\ result = Ok) =>
          LET k == Lowest(Holding(prev.items, arg_item.identifier)) IN
          arg_item.quantity >= prev.items[k].item.quantity

\* the last counted item was removed: the count went from 1 to 0
C17_Witness ==
    /\ op \in {"remove", "remove_at"}
    /\ result = Ok
    /\ count(prev) = 1
    /\ count(inv) = 0

C17_WitnessDifference ==
    /\ op = "remove"
    /\ result = Ok
    /\ Holding(prev.items, arg_item.identifier) # {}
    /\ count(inv) = count(prev)

\* ----------------------------------------------------------------- C18
\* C18 (under SpecEmpty, add_at is only called on slots empty at the time):
\* in every reachable state count() equals the number of occupied slots and
\* count() <= capacity(), whatever add, remove, remove_at, get_at and swap
\* calls are interleaved.
C18_CountExactOnEmptySlots ==
    /\ count(inv) = Occupied(inv.items)
    /\ count(inv) <= capacity(inv)

\* add_at filled the last empty slot of an inventory that other calls had
\* changed before
C18_Witness ==
    /\ op = "add_at"
    /\ result = Ok
    /\ calls = MaxCalls
    /\ count(inv) = capacity(inv)
    /\ capacity(inv) = MaxCap

\* ----------------------------------------------------------------- C19
\* C19: a call that returns an error other than IndexOutOfBounds leaves the
\* inventory unchanged: add returning Full, remove returning NotFound,
\* remove_at and get_at returning NotFound change no slot and not count().
C19_ErrorsChangeNothing ==
    /\ (op = "add" /\ result = Full) => inv = prev
    /\ (op \in {"remove", "remove_at", "get_at"} /\ result = NotFound) => inv = prev
    /\ result \in {Full, NotFound, QuantityInsufficient} =>
          (inv.items = prev.items /\ count(inv) = count(prev))

\* remove found no slot of the identifier in a non-empty inventory
C19_Witness ==
    /\ op = "remove"
    /\ result = NotFound
    /\ Occupied(prev.items) > 0
    /\ inv = prev

C19_WitnessFull ==
    /\ op = "add"
    /\ result = Full
    /\ capacity(prev) = MaxCap

\* ----------------------------------------------------------------- C20
\* C20: capacity(), count(), contains(item) and get_at(slot) never change
\* the inventory: with any argument and any result every slot and the count
\* are as before the call.
C20_QueriesChangeNothing ==
    op \in {"capacity", "count", "contains", "get_at"} =>
        /\ inv.items = prev.items
        /\ count(inv) = count(prev)
        /\ capacity(inv) = capacity(prev)

\* get_at read an item out of an occupied slot
C20_Witness ==
    /\ op = "get_at"
    /\ result = Ok
    /\ value \in Items
    /\ Occupied(inv.items) > 0

C20_WitnessContains ==
    /\ op = "contains"
    /\ value = TRUE

====
